---- MODULE Spec2Model ----
(***************************************************************************)
(* Model of the COG generator (src/main.py): process_cog_list, the batch   *)
(* pipeline over S3 keys, and process_cog_with_params, the profile         *)
(* selection / transcode / validation call it makes for every job.         *)
(*                                                                         *)
(* Strings that the code takes apart (S3 keys, local paths) are sequences  *)
(* of one-character strings; a generated unique name (tempfile, uuid4) is  *)
(* one token of such a sequence.                                           *)
(***************************************************************************)
EXTENDS Integers, Sequences, FiniteSets, TLC

\* ---------------------------------------------------------------- bounds
\* longest key list handed to process_cog_list
MaxJobs == 2
\* calls of process_cog_list in one process
MaxRuns == 2
\* direct calls of process_cog_with_params in one process
MaxCalls == 2
\* most bands of a dataset handle
MaxBands == 2

\* ------------------------------------------------------- pathlib.PurePath
\* str.split("/")
RECURSIVE SplitOn(_, _)
SplitOn(s, cur) ==
    IF s = <<>> THEN <<cur>>
    ELSE IF Head(s) = "/" THEN <<cur>> \o SplitOn(Tail(s), <<>>)
    ELSE SplitOn(Tail(s), Append(cur, Head(s)))

\* the components of a path: empty components and "." are dropped
PathParts(s) == SelectSeq(SplitOn(s, <<>>), LAMBDA p : p # <<>> /\ p # <<".">>)

\* the root of a path: "/", or "//" for exactly two leading slashes
RECURSIVE LeadingSlashes(_)
LeadingSlashes(s) ==
    IF s # <<>> /\ Head(s) = "/" THEN 1 + LeadingSlashes(Tail(s)) ELSE 0

PathRoot(s) ==
    IF LeadingSlashes(s) = 0 THEN <<>>
    ELSE IF LeadingSlashes(s) = 2 THEN <<"/", "/">> ELSE <<"/">>

\* "/".join(parts)
RECURSIVE JoinParts(_)
JoinParts(ps) ==
    IF ps = <<>> THEN <<>>
    ELSE IF Len(ps) = 1 THEN ps[1]
    ELSE ps[1] \o <<"/">> \o JoinParts(Tail(ps))

\* Path(s).name
PathName(s) ==
    IF PathParts(s) = <<>> THEN <<>> ELSE PathParts(s)[Len(PathParts(s))]

\* name.rfind(".") as a 1-based index, 0 when there is no dot
RFindDot(name) ==
    LET I == {i \in 1..Len(name) : name[i] = "."}
    IN  IF I = {} THEN 0 ELSE CHOOSE i \in I : \A j \in I : j <= i

\* Path(s).suffix: from the last dot, unless it starts or ends the name
PathSuffix(s) ==
    LET name == PathName(s)
        i == RFindDot(name)
    IN  IF 1 < i /\ i < Len(name) THEN SubSeq(name, i, Len(name)) ELSE <<>>

\* Path(s).stem
PathStem(s) ==
    LET name == PathName(s)
        i == RFindDot(name)
    IN  IF 1 < i /\ i < Len(name) THEN SubSeq(name, 1, i - 1) ELSE name

\* Path(s).with_name(name) raises ValueError when the path has no name
WithNameRaises(s) == PathName(s) = <<>>

\* str(Path(s).with_name(name))
WithName(s, name) ==
    LET ps == PathParts(s)
    IN  PathRoot(s) \o JoinParts(SubSeq(ps, 1, Len(ps) - 1) \o <<name>>)

\* the profile identifiers as character sequences
ProfileChars(profile) ==
    IF profile = "jpeg" THEN <<"j", "p", "e", "g">>
    ELSE <<"d", "e", "f", "l", "a", "t", "e">>

\* the output written under the name of the input
CogName_same(s, profile) == s

\* src.with_name(src.stem + f"_COG_{profile}" + src.suffix)
CogName(s, profile) ==
    WithName(s, PathStem(s) \o <<"_", "C", "O", "G", "_">>
                \o ProfileChars(profile) \o PathSuffix(s))

\* ------------------------------------------------------------ data model
Dtypes == {"float32", "float64", "int16"}

\* the band-type sequences of a dataset handle (geotiff.dtypes)
DtypeSeqs == UNION {[1..n -> Dtypes] : n \in 1..MaxBands}

\* a mapping with no entries: an empty bucket, an empty disk
EmptyMap == [x \in {} |-> 0]

\* the default value of the profile_options parameter, as written in the def
BaselineOptions ==
    ("blockxsize" :> 256) @@ ("blockysize" :> 256) @@ ("BLOCKSIZE" :> 256)
    @@ ("LEVEL" :> 9) @@ ("ZLEVEL" :> 9) @@ ("BIGTIFF" :> "IF_SAFER")
    @@ ("NUM_THREADS" :> "ALL_CPUS")

\* dict.update: the entries of upd replace or extend those of d
Update(d, upd) == upd @@ d

\* a file or a bucket object: a source raster, a transcoded artifact (with the
\* profile it was written with and whether it is a structurally valid COG),
\* or a partially written output
TiffObject == [kind |-> "tiff", profile |-> "none", valid |-> FALSE]
CogObject(profile, valid) == [kind |-> "cog", profile |-> profile, valid |-> valid]
PartialObject == [kind |-> "partial", profile |-> "none", valid |-> FALSE]

\* os.getenv("TEMP_DIR", default="/tmp")
TempDir == <<"/", "t", "m", "p">>

\* NamedTemporaryFile(dir=temp_dir, suffix=sfx).name; n stands for the random part
TempFileName(n, sfx) == TempDir \o <<"/", "tmp" \o ToString(n)>> \o sfx

\* Path(f"{temp_dir}/{uuid.uuid4()}.tif"); n stands for the uuid
UuidPath(n) == TempDir \o <<"/", "uuid" \o ToString(n), ".", "t", "i", "f">>

TifSuffix == <<".", "t", "i", "f">>
TiffSuffix == <<".", "t", "i", "f", "f">>

\* os.getcwd() of the process
Cwd == <<"/", "t", "m", "p">>

\* the symbolic links of the local file system, with their targets: a link to
\* a file and a link to a directory
Symlinks ==
    (<<"/", "d", "/", "l", "i", "n", "k", ".", "t">> :> <<"/", "d", "/", "x", ".", "t">>)
    @@ (<<"/", "d", "l">> :> <<"/", "d">>)

\* os.path.realpath, component by component: cur holds the components of the
\* real path found so far, rest the components still to walk; "" and "." are
\* passed over, ".." drops the last component, a link is replaced by the
\* real path of its target
RECURSIVE RealPathParts(_, _)
RealPathParts(cur, rest) ==
    IF rest = <<>> THEN cur
    ELSE LET name == Head(rest)
             new == Append(cur, name)
             newpath == <<"/">> \o JoinParts(new) IN
         IF name = <<>> \/ name = <<".">> THEN RealPathParts(cur, Tail(rest))
         ELSE IF name = <<".", ".">>
         THEN RealPathParts(SubSeq(cur, 1, Len(cur) - 1), Tail(rest))
         ELSE IF newpath \in DOMAIN Symlinks
         THEN RealPathParts(RealPathParts(<<>>, SplitOn(Symlinks[newpath], <<>>)),
                            Tail(rest))
         ELSE RealPathParts(new, Tail(rest))

\* str(Path(s).resolve()): the path made absolute from the working directory,
\* with links followed and "..", "." and doubled slashes removed
Resolve(s) ==
    LET abs == IF s # <<>> /\ Head(s) = "/" THEN s ELSE Cwd \o <<"/">> \o s
    IN  <<"/">> \o JoinParts(RealPathParts(<<>>, SplitOn(abs, <<>>)))

\* the dst_path argument left at its default
None == [given |-> FALSE, path |-> <<>>]

\* a dst_path argument given by the caller
Given(path) == [given |-> TRUE, path |-> path]

\* what the collaborators of one process_cog_with_params call do: whether
\* rasterio.open succeeds, what cog_translate does (writes a valid COG, writes
\* an output that is not a valid COG, raises with or without a partly written
\* output) and whether cog_validate raises; each record is one course of the
\* call: what comes after a raise is left at its first value
Outcomes ==
    {o \in [open : BOOLEAN,
            translate : {"valid", "invalid", "raise", "raise_partial"},
            validate : {"ok", "raise"}] :
        /\ (~o.open => o.translate = "valid" /\ o.validate = "ok")
        /\ (o.translate \in {"raise", "raise_partial"} => o.validate = "ok")}

\* an outcome together with the band types rasterio.open reports
Oracle(o, dtypes) ==
    [open |-> o.open, dtypes |-> dtypes, translate |-> o.translate,
     validate |-> o.validate]

\* --------------------------------------------- process_cog_with_params
\* all(x == "float32" for x in geotiff.dtypes)
AllFloat(dtypes) == \A i \in 1..Len(dtypes) : dtypes[i] = "float32"

\* the profile identifier chosen by process_cog_with_params
SelectProfile(compress, is_dem) ==
    IF is_dem THEN "deflate" ELSE IF compress THEN "jpeg" ELSE "deflate"

\* the updates with the smoothing flag not looked at: always bilinear
SelectOptions_bilinear(profile_options, dtypes, compress, is_dem, smooth_dem) ==
    IF is_dem
    THEN Update(Update(profile_options,
                       "PREDICTOR" :> (IF AllFloat(dtypes) THEN 3 ELSE 2)),
                "RESAMPLING" :> "BILINEAR")
    ELSE IF compress THEN Update(profile_options, "QUALITY" :> 85)
    ELSE profile_options

\* the option mapping after the updates process_cog_with_params applies to it
SelectOptions(profile_options, dtypes, compress, is_dem, smooth_dem) ==
    IF is_dem
    THEN Update(Update(profile_options,
                       "PREDICTOR" :> (IF AllFloat(dtypes) THEN 3 ELSE 2)),
                "RESAMPLING" :> (IF smooth_dem THEN "CUBIC" ELSE "BILINEAR"))
    ELSE IF compress THEN Update(profile_options, "QUALITY" :> 85)
    ELSE profile_options

\* the test left out: every path is taken to name a file
is_file_unchecked(d, path) == TRUE

\* line 74: src_path.is_file()
is_file(d, path) == path \in DOMAIN d

\* One call. data is [kind |-> "path", path |-> p], [kind |-> "bytes"] or
\* [kind |-> "reader", dtypes |-> d]; dst_path is None or Given(p);
\* profile_options is the value of the
\* mapping object bound to the parameter; kwargs are the **options; disk and
\* n are the local files and the count of generated names; o is the oracle.
\* The result gives: raised, ret (the returned dst_path), the mapping object,
\* the local files and the name count afterwards, and the calls made.
process_cog_with_params(data, dst_path, profile_options, compress, is_dem, smooth_dem, kwargs, disk, n, o) ==
    LET ev0 == <<[op |-> "call", kind |-> data.kind,
                  path |-> IF data.kind = "path" THEN data.path ELSE <<>>,
                  compress |-> compress,
                  is_dem |-> is_dem, smooth_dem |-> smooth_dem]>>
        src_path == IF data.kind = "path" THEN Resolve(data.path)
                    ELSE IF data.kind = "bytes" THEN TempFileName(n + 1, TiffSuffix)
                    ELSE UuidPath(n + 1)
        n1 == IF data.kind = "path" THEN n ELSE n + 1
        missing == data.kind = "path" /\ ~is_file(disk, src_path)
        \* lines 77-82: the bytes are written to a temporary file kept on close
        disk1 == IF data.kind = "bytes"
                 THEN (src_path :> TiffObject) @@ disk ELSE disk
        ev1 == IF data.kind = "bytes"
               THEN Append(ev0, [op |-> "mktemp", path |-> src_path]) ELSE ev0
        \* lines 84-92
        opened == data.kind = "reader"
                  \/ /\ src_path \in DOMAIN disk1
                     /\ o.open /\ disk1[src_path].kind # "partial"
        dtypes == IF data.kind = "reader" THEN data.dtypes ELSE o.dtypes
        ev2 == IF data.kind = "reader" THEN ev1
               ELSE Append(ev1, [op |-> "open", path |-> src_path, ok |-> opened])
        \* lines 94-131
        profile == SelectProfile(compress, is_dem)
        opts == SelectOptions(profile_options, dtypes, compress, is_dem, smooth_dem)
        \* lines 133-136
        dst == IF dst_path.given THEN dst_path.path
               ELSE CogName(src_path, profile)
        \* lines 144-150: the output is written through the file system, to
        \* the file that dst names
        translated == o.translate \in {"valid", "invalid"}
        disk2 == IF translated
                 THEN (Resolve(dst) :> CogObject(profile, o.translate = "valid")) @@ disk1
                 ELSE IF o.translate = "raise_partial"
                 THEN (Resolve(dst) :> PartialObject) @@ disk1
                 ELSE disk1
        ev3 == Append(ev2, [op |-> "translate", dtypes |-> dtypes, dst |-> dst,
                            profile |-> profile, options |-> opts,
                            kwargs |-> kwargs, ok |-> translated])
        \* lines 151-152: the result of cog_validate is not looked at
        ev4 == Append(ev3, [op |-> "validate", path |-> dst,
                            result |-> IF o.validate = "raise" THEN "raise"
                                       ELSE IF o.translate = "valid" THEN "valid"
                                       ELSE "invalid"])
    IN  IF missing
        THEN [raised |-> TRUE, ret |-> <<>>, profile_options |-> profile_options,
              disk |-> disk, n |-> n, events |-> ev0]
        ELSE IF ~opened
        THEN [raised |-> TRUE, ret |-> <<>>, profile_options |-> profile_options,
              disk |-> disk1, n |-> n1, events |-> ev2]
        ELSE IF ~translated
        THEN [raised |-> TRUE, ret |-> <<>>, profile_options |-> opts,
              disk |-> disk2, n |-> n1, events |-> ev3]
        ELSE IF o.validate = "raise"
        THEN [raised |-> TRUE, ret |-> <<>>, profile_options |-> opts,
              disk |-> disk2, n |-> n1, events |-> ev4]
        ELSE [raised |-> FALSE, ret |-> dst, profile_options |-> opts,
              disk |-> disk2, n |-> n1, events |-> ev4]

\* ------------------------------------------------------------ the world
\* the S3 keys the batches are made of: "a/b.tif" and "c"
Keys == {<<"a", "/", "b", ".", "t", "i", "f">>, <<"c">>}

\* the band types of the raster stored under each key
SrcDtypes(key) == IF key = <<"c">> THEN <<"float64">> ELSE <<"float32">>

\* the key lists handed to process_cog_list
KeyLists == UNION {[1..n -> Keys] : n \in 0..MaxJobs}

\* the keyword arguments of process_cog_list; replicate_from_bucket is TRUE
\* when a bucket name is given. smooth_dem and web_optimized are only handed
\* on to process_cog_with_params: the batches leave web_optimized off and ask
\* for smoothing only together with is_dem
FlagSets ==
    {fl \in [replicate_from_bucket : BOOLEAN, preload : BOOLEAN,
             overwrite : BOOLEAN, compress : BOOLEAN, is_dem : BOOLEAN,
             smooth_dem : BOOLEAN, web_optimized : {FALSE}] :
        fl.smooth_dem => fl.is_dem}

NoFlags ==
    [replicate_from_bucket |-> FALSE, preload |-> FALSE, overwrite |-> FALSE,
     compress |-> FALSE, is_dem |-> FALSE, smooth_dem |-> FALSE,
     web_optimized |-> FALSE]

\* a file of the caller on the local disk, for direct calls with a path
LocalFile == <<"/", "d", "/", "x", ".", "t">>

\* a file under the working directory
CwdFile == <<"/", "t", "m", "p", "/", "d", "/", "x", ".", "t">>

MissingFile == <<"/", "d", "/", "y", ".", "t">>

\* ---------------------------------------------------------------- state
VARIABLES
    profile_options,  \* the default mapping object of process_cog_with_params
    bucket,           \* the working bucket: key -> object
    disk,             \* the local files: path -> content
    uid,              \* number of unique names generated so far
    run,              \* calls of process_cog_list so far
    calls,            \* direct calls of process_cog_with_params so far
    tiff_keys,        \* process_cog_list: the key list
    flags,            \* process_cog_list: the keyword arguments
    idx,              \* process_cog_list: position of the for loop
    pc,               \* process_cog_list: the statement reached
    temp_file,        \* process_cog_list: name of the open NamedTemporaryFile
    cog_path,         \* process_cog_list: cog_path
    snap,             \* the working bucket as each earlier run left it
    log               \* the calls made to collaborators, in order

vars == <<profile_options, bucket, disk, uid, run, calls, tiff_keys, flags,
          idx, pc, temp_file, cog_path, snap, log>>

\* the events evs, marked with the run and the job they belong to
Tag(evs, r, j) == [i \in 1..Len(evs) |-> [run |-> r, job |-> j] @@ evs[i]]

\* the state of a process right after import, with the rasters already in
\* the working bucket or only in the bucket to replicate from
Init ==
    /\ profile_options = BaselineOptions
    /\ bucket \in {[k \in Keys |-> TiffObject], EmptyMap}
    /\ disk = EmptyMap
    /\ uid = 0
    /\ run = 0
    /\ calls = 0
    /\ tiff_keys = <<>>
    /\ flags = NoFlags
    /\ idx = 0
    /\ pc = "idle"
    /\ temp_file = <<>>
    /\ cog_path = <<>>
    /\ snap = <<>>
    /\ log = <<>>

\* -------------------------------------------------------- process_cog_list
\* line 204
ListProfile(compress) == IF compress THEN "jpeg" ELSE "deflate"

\* lines 209-212
dst_key(tiff_key, compress) == CogName(tiff_key, ListProfile(compress))

\* an existence query that never finds the key
check_file_exists_never(b, key) == FALSE

\* s3_cog.check_file_exists(key)
check_file_exists(b, key) == key \in DOMAIN b

\* the gate with the continue statement left out: no job is skipped
gate_skips_never(overwrite, exists) == FALSE

\* lines 214-220: the job is skipped (continue) when overwrite is off and the
\* destination key is there
gate_skips(overwrite, exists) == ~overwrite /\ exists

\* a loop that does not advance: the same key is taken again
NextKey_again == idx' = idx /\ pc' = "gate"

\* the for loop moves to the next key, or the function returns
NextKey ==
    /\ idx' = idx + 1
    /\ pc' = IF idx < Len(tiff_keys) THEN "gate" ELSE "done"

\* a failed job is tried again from its gate instead of ending the call
Abort_retry == idx' = idx /\ pc' = "gate"

\* an exception leaves process_cog_list
Abort == idx' = idx /\ pc' = "aborted"

\* lines 193-204: a first call of process_cog_list in this process
StartRun(keys, fl) ==
    /\ pc = "idle" /\ run = 0 /\ calls = 0
    /\ run' = 1
    /\ tiff_keys' = keys
    /\ flags' = fl
    /\ idx' = 1
    /\ pc' = IF keys = <<>> THEN "done" ELSE "gate"
    /\ UNCHANGED <<profile_options, bucket, disk, uid, calls, temp_file,
                   cog_path, snap, log>>

\* the same batch is run again with the same arguments in the same process,
\* after a run that returned
Rerun ==
    /\ pc = "done" /\ run < MaxRuns
    /\ run' = run + 1
    /\ flags' = flags
    /\ idx' = 1
    /\ pc' = IF tiff_keys = <<>> THEN "done" ELSE "gate"
    /\ snap' = Append(snap, bucket)
    /\ UNCHANGED <<profile_options, bucket, disk, uid, calls, tiff_keys,
                   temp_file, cog_path, log>>

\* lines 206-220: the destination key and the skip-if-exists gate
Gate ==
    /\ pc = "gate"
    /\ LET key == tiff_keys[idx] IN
       IF WithNameRaises(key)
       THEN /\ log' = log \o Tag(<<[op |-> "raise", stage |-> "key"]>>, run, idx)
            /\ Abort
       ELSE IF flags.overwrite
       THEN /\ log' = log
            /\ idx' = idx /\ pc' = "copy"
       ELSE \E answered \in BOOLEAN :
            LET dst == dst_key(key, flags.compress)
                found == check_file_exists(bucket, dst) IN
            IF ~answered
            THEN /\ log' = log \o Tag(<<[op |-> "exists", key |-> dst, result |-> "raise"],
                                        [op |-> "raise", stage |-> "exists"]>>, run, idx)
                 /\ Abort
            ELSE IF gate_skips(flags.overwrite, found)
            THEN /\ log' = log \o Tag(<<[op |-> "exists", key |-> dst, result |-> "yes"],
                                        [op |-> "skip", key |-> key]>>, run, idx)
                 /\ NextKey
            ELSE /\ log' = log \o Tag(<<[op |-> "exists", key |-> dst,
                                         result |-> IF found THEN "yes" ELSE "no"]>>, run, idx)
                 /\ idx' = idx /\ pc' = "copy"
    /\ UNCHANGED <<profile_options, bucket, disk, uid, run, calls, tiff_keys,
                   flags, temp_file, cog_path, snap>>

\* lines 222-227: the server-side copy into the working bucket
Copy ==
    /\ pc = "copy"
    /\ LET key == tiff_keys[idx] IN
       IF ~flags.replicate_from_bucket
       THEN /\ bucket' = bucket /\ log' = log
            /\ idx' = idx /\ pc' = "acquire"
       ELSE \E ok \in BOOLEAN :
            IF ok
            THEN /\ bucket' = (key :> TiffObject) @@ bucket
                 /\ log' = log \o Tag(<<[op |-> "copy", key |-> key, ok |-> TRUE]>>, run, idx)
                 /\ idx' = idx /\ pc' = "acquire"
            ELSE /\ bucket' = bucket
                 /\ log' = log \o Tag(<<[op |-> "copy", key |-> key, ok |-> FALSE],
                                        [op |-> "raise", stage |-> "copy"]>>, run, idx)
                 /\ Abort
    /\ UNCHANGED <<profile_options, disk, uid, run, calls, tiff_keys, flags,
                   temp_file, cog_path, snap>>

\* the mapping f without the entry for x (os.unlink on the local files)
Remove(f, x) == [y \in DOMAIN f \ {x} |-> f[y]]

\* Path.unlink(missing_ok=True), and the delete-on-close of NamedTemporaryFile
Unlink(d, path) == Remove(d, path)

UnlinkEvent(d, path) == [op |-> "unlink", path |-> path, existed |-> path \in DOMAIN d]

\* the remote open taken whatever preload says
acquisition_mode_stream(preload) == "open_remote"

\* lines 229 and 245: `if preload:` downloads the object, `else:` opens it
\* over HTTP
acquisition_mode(preload) == IF preload THEN "download" ELSE "open_remote"

\* lines 229-235 and 245-252: the with statement is entered; in preload mode
\* a temporary file is created and the object downloaded into it, otherwise
\* the object is opened over HTTP
Acquire ==
    /\ pc = "acquire"
    /\ LET key == tiff_keys[idx] IN
       \E ok \in BOOLEAN :
       LET got == ok /\ key \in DOMAIN bucket IN
       IF acquisition_mode(flags.preload) = "download"
       THEN LET path == TempFileName(uid + 1, TifSuffix)
                made == (path :> PartialObject) @@ disk IN
            /\ uid' = uid + 1
            /\ IF got
               THEN /\ disk' = (path :> bucket[key]) @@ disk
                    /\ temp_file' = path
                    /\ log' = log \o Tag(<<[op |-> "mktemp", path |-> path],
                                           [op |-> "download", key |-> key, path |-> path, ok |-> TRUE]>>,
                                         run, idx)
                    /\ idx' = idx /\ pc' = "process"
               ELSE /\ disk' = Unlink(made, path)
                    /\ temp_file' = <<>>
                    /\ log' = log \o Tag(<<[op |-> "mktemp", path |-> path],
                                           [op |-> "download", key |-> key, path |-> path, ok |-> FALSE],
                                           UnlinkEvent(made, path),
                                           [op |-> "raise", stage |-> "download"]>>, run, idx)
                    /\ Abort
       ELSE /\ uid' = uid /\ disk' = disk /\ temp_file' = <<>>
            /\ IF got
               THEN /\ log' = log \o Tag(<<[op |-> "open_remote", key |-> key, ok |-> TRUE]>>, run, idx)
                    /\ idx' = idx /\ pc' = "process"
               ELSE /\ log' = log \o Tag(<<[op |-> "open_remote", key |-> key, ok |-> FALSE],
                                           [op |-> "raise", stage |-> "open_remote"]>>, run, idx)
                    /\ Abort
    /\ UNCHANGED <<profile_options, bucket, run, calls, tiff_keys, flags,
                   cog_path, snap>>

\* lines 237-243 and 254-260: process_cog_with_params is called inside the
\* with statement, which is then left: the temporary file is deleted
Process ==
    /\ pc = "process"
    /\ LET key == tiff_keys[idx]
           data == IF flags.preload THEN [kind |-> "path", path |-> temp_file]
                   ELSE [kind |-> "reader", dtypes |-> SrcDtypes(key)] IN
       \E o \in Outcomes :
       LET r == process_cog_with_params(data, None, profile_options, flags.compress,
                    flags.is_dem, flags.smooth_dem,
                    [web_optimized |-> flags.web_optimized], disk, uid,
                    Oracle(o, SrcDtypes(key)))
           closing == IF flags.preload THEN <<UnlinkEvent(r.disk, temp_file)>> ELSE <<>>
           raising == IF r.raised THEN <<[op |-> "raise", stage |-> "process"]>> ELSE <<>>
       IN  /\ profile_options' = r.profile_options
           /\ uid' = r.n
           /\ disk' = IF flags.preload THEN Unlink(r.disk, temp_file) ELSE r.disk
           /\ temp_file' = <<>>
           /\ log' = log \o Tag(r.events \o closing \o raising, run, idx)
           /\ IF r.raised
              THEN cog_path' = cog_path /\ Abort
              ELSE cog_path' = r.ret /\ idx' = idx /\ pc' = "upload"
    /\ UNCHANGED <<bucket, run, calls, tiff_keys, flags, snap>>

\* the two arguments taken the other way round: the object is stored under
\* the name of the local file
upload_file_swapped(b, key, d, path) == (path :> d[path]) @@ b

\* a put that leaves an object already stored under key as it is
upload_file_if_absent(b, key, d, path) ==
    IF key \in DOMAIN b THEN b ELSE (key :> d[path]) @@ b

\* s3_cog.upload_file(key, path): the object stored under key afterwards
upload_file(b, key, d, path) == (key :> d[path]) @@ b

\* the cleanup written after the upload instead of in a finally clause: it is
\* not reached when the upload raises
upload_cleanup_on_success(d, path, sent) == IF sent THEN Unlink(d, path) ELSE d

\* lines 264-266: the local files after the try statement; sent tells whether
\* upload_file returned
upload_cleanup(d, path, sent) == Unlink(d, path)

\* lines 262-266: the upload, and the unlink in the finally clause
Upload ==
    /\ pc = "upload"
    /\ LET key == tiff_keys[idx]
           dst == dst_key(key, flags.compress) IN
       \E ok \in BOOLEAN :
       LET sent == ok /\ cog_path \in DOMAIN disk IN
       /\ bucket' = IF sent THEN upload_file(bucket, dst, disk, cog_path) ELSE bucket
       /\ disk' = upload_cleanup(disk, cog_path, sent)
       /\ IF sent
          THEN /\ log' = log \o Tag(<<[op |-> "upload", key |-> dst, path |-> cog_path, ok |-> TRUE],
                                      UnlinkEvent(disk, cog_path)>>, run, idx)
               /\ NextKey
          ELSE /\ log' = log \o Tag(<<[op |-> "upload", key |-> dst, path |-> cog_path, ok |-> FALSE],
                                      UnlinkEvent(disk, cog_path),
                                      [op |-> "raise", stage |-> "upload"]>>, run, idx)
               /\ Abort
    /\ UNCHANGED <<profile_options, uid, run, calls, tiff_keys, flags,
                   temp_file, cog_path, snap>>

Next ==
    \/ \E keys \in KeyLists, fl \in FlagSets : StartRun(keys, fl)
    \/ Rerun
    \/ Gate
    \/ Copy
    \/ Acquire
    \/ Process
    \/ Upload

Spec == Init /\ [][Next]_vars

\* ------------------------------------------------- crash and a later run
\* The process is killed while a job is under way: nothing is cleaned up, the
\* local files and the objects stored so far stay. The log of the killed run
\* ends with the calls that had returned, or raised, before the kill.
Killed(evs) ==
    log' = log \o Tag(evs \o <<[op |-> "crash", stage |-> pc]>>, run, idx)

\* a kill between two stages
KillBetween ==
    /\ Killed(<<>>)
    /\ UNCHANGED <<profile_options, bucket, disk, uid>>

\* lines 214-220: a kill after the existence query answered or raised
KillInGate ==
    /\ pc = "gate" /\ ~flags.overwrite /\ ~WithNameRaises(tiff_keys[idx])
    /\ LET dst == dst_key(tiff_keys[idx], flags.compress)
           found == check_file_exists(bucket, dst) IN
       \E answered \in BOOLEAN :
           Killed(<<[op |-> "exists", key |-> dst,
                     result |-> IF ~answered THEN "raise"
                                ELSE IF found THEN "yes" ELSE "no"]>>)
    /\ UNCHANGED <<profile_options, bucket, disk, uid>>

\* lines 222-227: a kill after the copy was made or raised (a server-side
\* copy is all or nothing)
KillInCopy ==
    /\ pc = "copy" /\ flags.replicate_from_bucket
    /\ LET key == tiff_keys[idx] IN
       \E ok \in BOOLEAN :
           /\ bucket' = IF ok THEN (key :> TiffObject) @@ bucket ELSE bucket
           /\ Killed(<<[op |-> "copy", key |-> key, ok |-> ok]>>)
    /\ UNCHANGED <<profile_options, disk, uid>>

\* lines 229-235 and 245-252: a kill with the temporary file made and not
\* filled, after the download returned or raised, after the with statement
\* deleted the file of a failed download; or after the remote open
KillInAcquire ==
    /\ pc = "acquire"
    /\ LET key == tiff_keys[idx] IN
       \E ok \in BOOLEAN :
       LET got == ok /\ key \in DOMAIN bucket IN
       IF acquisition_mode(flags.preload) = "download"
       THEN LET path == TempFileName(uid + 1, TifSuffix)
                made == (path :> PartialObject) @@ disk
                full == (path :> bucket[key]) @@ disk
                evs == <<[op |-> "mktemp", path |-> path],
                         [op |-> "download", key |-> key, path |-> path, ok |-> got],
                         UnlinkEvent(made, path)>> IN
            /\ uid' = uid + 1
            /\ \E k \in 1..3 :
                   /\ k = 3 => ~got
                   /\ disk' = IF k = 3 THEN Unlink(made, path)
                              ELSE IF k = 2 /\ got THEN full ELSE made
                   /\ Killed(SubSeq(evs, 1, k))
       ELSE /\ uid' = uid /\ disk' = disk
            /\ Killed(<<[op |-> "open_remote", key |-> key, ok |-> got]>>)
    /\ UNCHANGED <<profile_options, bucket>>

\* lines 237-243 and 254-260: a kill inside process_cog_with_params or on the
\* way out of the with statement, after any number of its calls: before
\* cog_translate wrote anything, with the output half written, with the
\* output written, and with the downloaded file still there or deleted
KillInProcess ==
    /\ pc = "process"
    /\ LET key == tiff_keys[idx]
           data == IF flags.preload THEN [kind |-> "path", path |-> temp_file]
                   ELSE [kind |-> "reader", dtypes |-> SrcDtypes(key)] IN
       \E o \in Outcomes, half \in BOOLEAN :
       LET r == process_cog_with_params(data, None, profile_options,
                    flags.compress, flags.is_dem, flags.smooth_dem,
                    [web_optimized |-> flags.web_optimized], disk, uid,
                    Oracle(o, SrcDtypes(key)))
           closing == IF flags.preload THEN <<UnlinkEvent(r.disk, temp_file)>> ELSE <<>>
           evs == r.events \o closing
           T == {i \in DOMAIN r.events : r.events[i].op = "translate"}
       IN  \E k \in 1..Len(evs) :
           LET written == \E t \in T : t <= k
               begun == written \/ (half /\ \E t \in T : t = k + 1)
           IN  /\ half => o.translate = "raise_partial"
               /\ disk' = IF k > Len(r.events) THEN Unlink(r.disk, temp_file)
                          ELSE IF begun THEN r.disk ELSE disk
               /\ uid' = IF begun THEN r.n ELSE uid
               /\ profile_options' = IF begun THEN r.profile_options
                                     ELSE profile_options
               /\ Killed(SubSeq(evs, 1, k))
    /\ bucket' = bucket

\* lines 262-266: a kill after the upload stored the object or raised (an S3
\* put is all or nothing), before or after the unlink of the finally clause
KillInUpload ==
    /\ pc = "upload"
    /\ LET dst == dst_key(tiff_keys[idx], flags.compress) IN
       \E ok \in BOOLEAN, k \in 1..2 :
       LET sent == ok /\ cog_path \in DOMAIN disk
           evs == <<[op |-> "upload", key |-> dst, path |-> cog_path, ok |-> sent],
                    UnlinkEvent(disk, cog_path)>> IN
       /\ bucket' = IF sent THEN upload_file(bucket, dst, disk, cog_path) ELSE bucket
       /\ disk' = IF k = 2 THEN upload_cleanup(disk, cog_path, sent) ELSE disk
       /\ Killed(SubSeq(evs, 1, k))
    /\ UNCHANGED <<profile_options, uid>>

\* the kill of the first run of the batch, in a job or after the last one,
\* before process_cog_list returns; the run made after it is not interrupted
Crash ==
    /\ pc \in {"gate", "copy", "acquire", "process", "upload", "done"}
    /\ snap = <<>>
    /\ pc' = "crashed"
    /\ \/ KillBetween
       \/ KillInGate
       \/ KillInCopy
       \/ KillInAcquire
       \/ KillInProcess
       \/ KillInUpload
    /\ UNCHANGED <<run, calls, tiff_keys, flags, idx, temp_file, cog_path, snap>>

\* lines 193-204 in a new process: the same batch is given again, with
\* overwrite off; the default mapping of line 57 is built anew
Restart ==
    /\ pc = "crashed" /\ run < MaxRuns
    /\ run' = run + 1
    /\ profile_options' = BaselineOptions
    /\ flags' = [flags EXCEPT !.overwrite = FALSE]
    /\ idx' = 1
    /\ pc' = IF tiff_keys = <<>> THEN "done" ELSE "gate"
    /\ temp_file' = <<>>
    /\ cog_path' = <<>>
    /\ snap' = Append(snap, bucket)
    /\ UNCHANGED <<bucket, disk, uid, calls, tiff_keys, log>>

\* the step just taken met no failure: no exception left the call and the
\* artifact it validated is a valid one. Runs after a crash are failure-free.
FailureFree ==
    run > 1 =>
        /\ pc' # "aborted"
        /\ \A i \in DOMAIN log' :
               (i > Len(log) /\ log'[i].op = "validate") => log'[i].result = "valid"

\* the arguments of the runs that are killed: replication and overwrite with
\* the default profile, and the compress and DEM flags without them
CrashFlagSets ==
    {fl \in FlagSets :
        /\ ~fl.smooth_dem
        /\ \/ ~fl.is_dem /\ ~fl.compress
           \/ ~fl.replicate_from_bucket /\ ~fl.overwrite}

NextCrash ==
    \/ \E keys \in KeyLists, fl \in CrashFlagSets : StartRun(keys, fl)
    \/ Gate /\ FailureFree
    \/ Copy /\ FailureFree
    \/ Acquire /\ FailureFree
    \/ Process /\ FailureFree
    \/ Upload /\ FailureFree
    \/ Crash
    \/ Restart

SpecCrash == Init /\ [][NextCrash]_vars

\* ------------------------------------ direct calls of process_cog_with_params
\* the data argument of a direct call: a path, bytes or an open dataset
\* an output path relative to the working directory; given as data, it names
\* a file once a call has written it
RelOutFile == <<"o", "u", "t", ".", "t", "i", "f">>

\* the paths given to direct calls: a file, a name that is no file, and other
\* spellings of files: relative to the working directory, through "..",
\* through a link to the file, through a link to its directory, with a
\* doubled slash; and a relative name that is no file
PathArgs ==
    ("file" :> LocalFile) @@ ("nofile" :> MissingFile)
    @@ ("relative" :> <<"d", "/", "x", ".", "t">>)
    @@ ("dotdot" :> <<"/", "d", "/", ".", ".", "/", "d", "/", "x", ".", "t">>)
    @@ ("link" :> <<"/", "d", "/", "l", "i", "n", "k", ".", "t">>)
    @@ ("dirlink" :> <<"/", "d", "l", "/", "x", ".", "t">>)
    @@ ("slashes" :> <<"/", "/", "d", "/", "x", ".", "t">>)
    @@ ("relnofile" :> <<"d", "/", "y", ".", "t">>)
    @@ ("relout" :> RelOutFile)

\* an output path chosen by the caller
OutFile == <<"/", "t", "m", "p", "/", "o", "u", "t", ".", "t", "i", "f">>

\* other spellings of output paths: through "." and through a link to a
\* directory
DotOutFile == <<"/", "t", "m", "p", "/", ".", "/", "o", "u", "t", ".", "t", "i", "f">>
LinkOutFile == <<"/", "d", "l", "/", "o", "u", "t", ".", "t", "i", "f">>

DataArg(kind, dtypes) ==
    IF kind \in DOMAIN PathArgs THEN [kind |-> "path", path |-> PathArgs[kind]]
    ELSE IF kind = "bytes" THEN [kind |-> "bytes"]
    ELSE [kind |-> "reader", dtypes |-> dtypes]

\* the direct calls made: an open dataset that transcodes well, with every
\* flag combination (on every band-type sequence when is_dem is set, where
\* alone the band types are looked at), and every kind of data with every
\* course of the call, for a single float32 band and no flag set, and every
\* spelling of a path, with and without a dst_path, in a call that goes well;
\* a path that names no file with every profile flag; a reader with other
\* spellings of dst_path
CallArgs ==
    [kind : {"reader"}, dtypes : DtypeSeqs, dst_path : {None}, compress : BOOLEAN,
     is_dem : {TRUE}, smooth_dem : BOOLEAN,
     o : {o \in Outcomes : o.open /\ o.translate = "valid" /\ o.validate = "ok"}]
    \cup
    [kind : {"reader"}, dtypes : {<<"float32">>}, dst_path : {None}, compress : BOOLEAN,
     is_dem : {FALSE}, smooth_dem : BOOLEAN,
     o : {o \in Outcomes : o.open /\ o.translate = "valid" /\ o.validate = "ok"}]
    \cup
    [kind : {"file", "nofile", "bytes", "reader"}, dtypes : {<<"float32">>},
     dst_path : {None},
     compress : {FALSE}, is_dem : {FALSE}, smooth_dem : {FALSE}, o : Outcomes]
    \cup
    [kind : DOMAIN PathArgs \cup {"reader"}, dtypes : {<<"float32">>},
     dst_path : {None, Given(OutFile)},
     compress : {FALSE}, is_dem : {FALSE}, smooth_dem : {FALSE},
     o : {o \in Outcomes : o.open /\ o.translate = "valid" /\ o.validate = "ok"}]
    \cup
    [kind : {"nofile", "relnofile"}, dtypes : {<<"float32">>},
     dst_path : {None},
     compress : BOOLEAN, is_dem : BOOLEAN, smooth_dem : {FALSE},
     o : {o \in Outcomes : o.open /\ o.translate = "valid" /\ o.validate = "ok"}]
    \cup
    [kind : {"reader"}, dtypes : {<<"float32">>},
     dst_path : {Given(RelOutFile), Given(DotOutFile), Given(LinkOutFile)},
     compress : {FALSE}, is_dem : {FALSE}, smooth_dem : {FALSE},
     o : {o \in Outcomes : o.open /\ o.translate # "raise"}]

\* a process whose caller has a raster on the local disk
InitParams ==
    /\ profile_options = BaselineOptions
    /\ bucket = EmptyMap
    /\ disk = (LocalFile :> TiffObject) @@ (CwdFile :> TiffObject)
    /\ uid = 0
    /\ run = 0
    /\ calls = 0
    /\ tiff_keys = <<>>
    /\ flags = NoFlags
    /\ idx = 0
    /\ pc = "idle"
    /\ temp_file = <<>>
    /\ cog_path = <<>>
    /\ snap = <<>>
    /\ log = <<>>

\* one call of process_cog_with_params with the default profile_options;
\* log keeps the events of the latest call
Call(data, dst_path, compress, is_dem, smooth_dem, o) ==
    /\ pc = "idle" /\ run = 0 /\ calls < MaxCalls
    /\ LET r == process_cog_with_params(data, dst_path, profile_options, compress, is_dem,
                    smooth_dem, EmptyMap, disk, uid, o)
           raising == IF r.raised THEN <<[op |-> "raise", stage |-> "process"]>> ELSE <<>>
       IN  /\ profile_options' = r.profile_options
           /\ uid' = r.n
           /\ disk' = r.disk
           /\ log' = Tag(r.events \o raising, 0, calls + 1)
    /\ calls' = calls + 1
    /\ UNCHANGED <<bucket, run, tiff_keys, flags, idx, pc, temp_file, cog_path, snap>>

NextParams ==
    \E a \in CallArgs :
        Call(DataArg(a.kind, a.dtypes), a.dst_path, a.compress, a.is_dem, a.smooth_dem,
             Oracle(a.o, a.dtypes))

SpecParams == InitParams /\ [][NextParams]_vars

\* ------------------------------------------------------------ properties
\* the positions of the log that belong to job j of run r
JobEvents(r, j) == {i \in DOMAIN log : log[i].run = r /\ log[i].job = j}

\* job j of run r made a call of the kind op
Did(r, j, op) == \E i \in JobEvents(r, j) : log[i].op = op

\* what became of job j of run r, as far as the log tells
JobOutcome(r, j) ==
    IF Did(r, j, "raise") THEN "failed"
    ELSE IF Did(r, j, "skip") THEN "skipped"
    ELSE IF \E i \in JobEvents(r, j) : log[i].op = "upload" /\ log[i].ok THEN "success"
    ELSE "none"

\* the stages after the gate
PastGate == {"copy", "acquire", "process", "upload"}

\* C1: with overwrite off, a job whose destination key is in the working
\* bucket is skipped. No job is past its gate while its destination key is
\* there; a job found to exist makes no call but the existence query, raises
\* nothing, and the loop has moved on to the next key.
C1_SkipExisting ==
    /\ (pc \in PastGate /\ ~flags.overwrite) =>
           dst_key(tiff_keys[idx], flags.compress) \notin DOMAIN bucket
    /\ \A i \in DOMAIN log :
           (log[i].op = "exists" /\ log[i].result = "yes") =>
               /\ \A k \in JobEvents(log[i].run, log[i].job) :
                      log[k].op \in {"exists", "skip"}
               /\ Did(log[i].run, log[i].job, "skip")
               /\ (log[i].run = run => idx > log[i].job)

\* C1 witness: the first key of a batch was skipped because its destination
\* was in the bucket, and the loop is at the second key.
C1_Witness ==
    /\ pc = "gate" /\ idx = 2 /\ ~flags.overwrite
    /\ JobOutcome(run, 1) = "skipped"
    /\ dst_key(tiff_keys[1], flags.compress) \in DOMAIN bucket

\* C2: a failure in one job never aborts the remaining jobs: when the batch
\* has ended, every job of the list has reached an outcome of its own.
C2_BatchIsolation ==
    pc \in {"done", "aborted"} =>
        \A j \in 1..Len(tiff_keys) : JobOutcome(run, j) # "none"

\* C3: no artifact is uploaded unless it passed validation: every upload that
\* is invoked is of a path that cog_validate found valid in the same job.
C3_UploadOnlyValidated ==
    \A i \in DOMAIN log :
        log[i].op = "upload" =>
            \E k \in JobEvents(log[i].run, log[i].job) :
                /\ k < i
                /\ log[k].op = "validate"
                /\ log[k].path = log[i].path
                /\ log[k].result = "valid"

\* C4: every scratch file a job created is released exactly once by the time
\* the job has terminated: between jobs and after the batch no scratch file is
\* left on the local disk, and each file made (the preload input, the
\* transcode output) was unlinked once.
C4_ScratchReleased ==
    pc \in {"gate", "done", "aborted"} =>
        /\ DOMAIN disk = {}
        /\ \A i \in DOMAIN log :
               (log[i].op = "mktemp" \/ (log[i].op = "translate" /\ log[i].ok)) =>
                   LET path == IF log[i].op = "mktemp" THEN log[i].path ELSE log[i].dst
                   IN  Cardinality({k \in DOMAIN log :
                           /\ log[k].op = "unlink"
                           /\ log[k].path = path
                           /\ log[k].existed}) = 1

\* the key with ins put between its stem and its extension, the directory
\* part left as it is
KeyInsert(key, ins) ==
    LET n == Len(key) - Len(PathSuffix(key))
    IN  SubSeq(key, 1, n) \o ins \o SubSeq(key, n + 1, Len(key))

\* C5: the key an artifact is uploaded under is the source key with _COG_<p>
\* between stem and extension, p being the profile the job's transcode used.
C5_DstKeyOfChosenProfile ==
    \A i \in DOMAIN log :
        log[i].op = "upload" =>
            \A k \in JobEvents(log[i].run, log[i].job) :
                log[k].op = "translate" =>
                    log[i].key = KeyInsert(tiff_keys[log[i].job],
                                     <<"_", "C", "O", "G", "_">>
                                     \o ProfileChars(log[k].profile))

\* the arguments of the call that log position i belongs to
CallOf(i) ==
    log[CHOOSE k \in JobEvents(log[i].run, log[i].job) : log[k].op = "call"]

\* C6: the shared default mapping is never changed, and the options handed to
\* the transcode are the baseline updated by the call's own flags and band
\* types only.
C6_FreshOptions ==
    /\ profile_options = BaselineOptions
    /\ \A i \in DOMAIN log :
           log[i].op = "translate" =>
               log[i].options = SelectOptions(BaselineOptions, log[i].dtypes,
                                    CallOf(i).compress, CallOf(i).is_dem,
                                    CallOf(i).smooth_dem)

\* C7: an upload that was attempted is followed at once by the unlink of the
\* local artifact, which happens once and leaves no file, whether the upload
\* returned or raised; when it raised, the exception goes on to end the job.
C7_ReleaseAfterUpload ==
    \A i \in DOMAIN log :
        log[i].op = "upload" =>
            /\ i + 1 \in DOMAIN log
            /\ log[i + 1].op = "unlink"
            /\ log[i + 1].path = log[i].path
            /\ log[i + 1].existed
            /\ Cardinality({k \in DOMAIN log :
                   log[k].op = "unlink" /\ log[k].path = log[i].path}) = 1
            /\ log[i].path \notin DOMAIN disk
            /\ (~log[i].ok =>
                   /\ i + 2 \in DOMAIN log
                   /\ log[i + 2].op = "raise"
                   /\ log[i + 2].stage = "upload"
                   /\ log[i + 2].job = log[i].job
                   /\ JobOutcome(log[i].run, log[i].job) = "failed"
                   /\ (log[i].run = run => pc = "aborted" /\ idx = log[i].job))

\* C7 witness: an upload raised, the artifact is gone from the local disk and
\* the job has failed.
C7_Witness ==
    \E i \in DOMAIN log :
        /\ log[i].op = "upload" /\ ~log[i].ok
        /\ log[i].path \notin DOMAIN disk
        /\ pc = "aborted"

\* C8: a second run of the same batch with overwrite off, after a run that
\* returned, transcodes nothing (makes no call but existence queries), skips
\* every job and leaves the bucket as the first run left it.
C8_IdempotentRerun ==
    (run >= 2 /\ ~flags.overwrite) =>
        /\ bucket = snap[run - 1]
        /\ \A i \in DOMAIN log :
               log[i].run = run =>
                   \/ log[i].op \in {"exists", "skip"}
                   \/ (log[i].op = "raise" /\ log[i].stage = "exists")
        /\ (pc = "done" =>
               \A j \in 1..Len(tiff_keys) : JobOutcome(run, j) = "skipped")

\* C8 witness: a batch with the same key twice, compress and is_dem both set,
\* transcoded in the first run and wholly skipped in the second.
C8_Witness ==
    /\ run = 2 /\ pc = "done" /\ ~flags.overwrite
    /\ flags.compress /\ flags.is_dem
    /\ Len(tiff_keys) = 2 /\ tiff_keys[1] = tiff_keys[2]
    /\ \E i \in DOMAIN log : log[i].run = 1 /\ log[i].op = "translate"
    /\ JobOutcome(2, 1) = "skipped" /\ JobOutcome(2, 2) = "skipped"

\* the floating-point sample types
FloatTypes == {"float32", "float64"}

\* C9: with is_dem, the predictor is 3 when every band is of a floating-point
\* type of any width, and 2 otherwise.
C9_PredictorByFloat ==
    \A i \in DOMAIN log :
        (log[i].op = "translate" /\ CallOf(i).is_dem) =>
            log[i].options["PREDICTOR"] =
                IF \A b \in DOMAIN log[i].dtypes : log[i].dtypes[b] \in FloatTypes
                THEN 3 ELSE 2

\* C10: is_dem keeps the deflate profile and sets no quality, also with
\* compress; compress without is_dem selects jpeg with quality 85; with
\* neither, the deflate profile and the baseline options are used unchanged.
C10_ProfilePrecedence ==
    \A i \in DOMAIN log :
        log[i].op = "translate" =>
            IF CallOf(i).is_dem
            THEN log[i].profile = "deflate" /\ "QUALITY" \notin DOMAIN log[i].options
            ELSE IF CallOf(i).compress
            THEN /\ log[i].profile = "jpeg"
                 /\ "QUALITY" \in DOMAIN log[i].options
                 /\ log[i].options["QUALITY"] = 85
            ELSE log[i].profile = "deflate" /\ log[i].options = BaselineOptions

\* C11: with is_dem, the resampling handed to the transcode is cubic when
\* smooth_dem is set and bilinear otherwise, whatever compress is and whatever
\* earlier calls left in the mapping; it is never nearest-neighbour.
C11_ResamplingBySmooth ==
    \A i \in DOMAIN log :
        (log[i].op = "translate" /\ CallOf(i).is_dem) =>
            /\ "RESAMPLING" \in DOMAIN log[i].options
            /\ log[i].options["RESAMPLING"] =
                   IF CallOf(i).smooth_dem THEN "CUBIC" ELSE "BILINEAR"
            /\ log[i].options["RESAMPLING"] # "NEAREST"

\* C11 witness: a second call, with is_dem, smooth_dem and compress all set,
\* whose transcode gets cubic resampling although the mapping held bilinear.
C11_Witness ==
    /\ calls = 2
    /\ \E i \in DOMAIN log :
           /\ log[i].op = "translate"
           /\ CallOf(i).is_dem /\ CallOf(i).smooth_dem /\ CallOf(i).compress
           /\ log[i].options["RESAMPLING"] = "CUBIC"

\* the position of a logged step in the order of the stages of one job: gate,
\* replication, acquisition, profile selection and transcode, validation,
\* release of the downloaded input, upload, release of the output artifact
StageOf(i) ==
    LET e == log[i] IN
    CASE e.op = "exists" -> 1
      [] e.op = "skip" -> 2
      [] e.op = "copy" -> 3
      [] e.op = "mktemp" -> 4
      [] e.op \in {"download", "open_remote"} -> 5
      [] e.op = "call" -> 6
      [] e.op = "open" -> 7
      [] e.op = "translate" -> 8
      [] e.op = "validate" -> 9
      [] e.op = "upload" -> 11
      [] e.op = "unlink" ->
             IF \E k \in JobEvents(e.run, e.job) :
                    log[k].op = "upload" /\ log[k].path = e.path
             THEN 12 ELSE 10
      [] OTHER -> 13

\* C12: the steps of one job are taken in the fixed stage order, each at most
\* once; the steps of a job all come after those of the job before it, and
\* the gate of a job is reached only when every earlier job of the run has
\* ended, skipped or uploaded.
C12_StageOrder ==
    /\ \A i \in DOMAIN log :
           i < Len(log) =>
               \/ log[i].run < log[i + 1].run
               \/ log[i].run = log[i + 1].run /\ log[i].job < log[i + 1].job
               \/ /\ log[i].run = log[i + 1].run /\ log[i].job = log[i + 1].job
                  /\ StageOf(i) < StageOf(i + 1)
    /\ pc \in {"gate"} \cup PastGate =>
           \A j \in 1..(idx - 1) : JobOutcome(run, j) \in {"skipped", "success"}
    /\ \A i \in DOMAIN log : log[i].run = run => log[i].job <= idx

\* C12 witness: the first job went through every stage, with replication and
\* a download, and the gate of the second job is about to be evaluated.
C12_Witness ==
    /\ run = 1 /\ idx = 2 /\ pc = "gate"
    /\ Len(log) = 11
    /\ [i \in 1..11 |-> log[i].op] =
           <<"exists", "copy", "mktemp", "download", "call", "open",
             "translate", "validate", "unlink", "upload", "unlink">>
    /\ \A i \in 1..11 : log[i].job = 1

\* the calls that fetch the source of a job
AcquisitionOps == {"mktemp", "download", "open_remote"}

\* C13: a copy into the working bucket is made only when a replicate-from
\* bucket is configured, once per job and for the key of that job; with
\* replication, a job fetches its source only after its copy returned and the
\* object is in the working bucket; after a failed copy the job does nothing
\* more, and the copy is not made again.
C13_ReplicationFirst ==
    /\ \A i \in DOMAIN log :
           log[i].op = "copy" =>
               /\ flags.replicate_from_bucket
               /\ log[i].key = tiff_keys[log[i].job]
               /\ \A k \in JobEvents(log[i].run, log[i].job) :
                      log[k].op = "copy" => k = i
               /\ ~log[i].ok =>
                      \A k \in JobEvents(log[i].run, log[i].job) :
                          k > i => log[k].op = "raise"
    /\ flags.replicate_from_bucket =>
           /\ \A i \in DOMAIN log :
                  log[i].op \in AcquisitionOps =>
                      \E k \in JobEvents(log[i].run, log[i].job) :
                          k < i /\ log[k].op = "copy" /\ log[k].ok
           /\ pc \in {"acquire", "process"} => tiff_keys[idx] \in DOMAIN bucket

\* C13 witness: the first job was copied, then downloaded, and uploaded; the
\* copy of the second job failed and the call ended without fetching it.
C13_Witness ==
    /\ run = 1 /\ idx = 2 /\ pc = "aborted"
    /\ \E i, k \in JobEvents(1, 1) :
           /\ i < k /\ log[i].op = "copy" /\ log[i].ok /\ log[k].op = "download"
    /\ JobOutcome(1, 1) = "success"
    /\ \E i \in JobEvents(1, 2) : log[i].op = "copy" /\ ~log[i].ok
    /\ ~\E i \in JobEvents(1, 2) : log[i].op \in AcquisitionOps \cup {"translate", "upload"}

\* C14: when a run was killed and the same batch is run again with overwrite
\* off and without failure, the later run ends with the destination object of
\* every source key in the working bucket; a job whose destination was
\* stored before the kill is skipped, and only jobs whose destination was
\* missing at the restart are transcoded.
C14_CrashRerun ==
    /\ \A i \in DOMAIN log :
           (log[i].run > 1 /\ log[i].op = "translate") =>
               dst_key(tiff_keys[log[i].job], flags.compress)
                   \notin DOMAIN snap[log[i].run - 1]
    /\ (run > 1 /\ pc = "done") =>
           \A j \in DOMAIN tiff_keys :
               LET dst == dst_key(tiff_keys[j], flags.compress) IN
               /\ dst \in DOMAIN bucket
               /\ dst \in DOMAIN snap[run - 1] =>
                      /\ JobOutcome(run, j) = "skipped"
                      /\ ~Did(run, j, "translate")

\* C14 witness: the first run stored the destination of its first job and was
\* killed in its second job after the copy; the second run skipped the first
\* job, transcoded and uploaded the second, and returned.
C14_Witness ==
    /\ run = 2 /\ pc = "done" /\ Len(tiff_keys) = 2
    /\ JobOutcome(1, 1) = "success"
    /\ \E i \in JobEvents(1, 2) : log[i].op = "copy" /\ log[i].ok
    /\ \E i \in JobEvents(1, 2) : log[i].op = "crash"
    /\ ~Did(1, 2, "upload")
    /\ JobOutcome(2, 1) = "skipped"
    /\ Did(2, 2, "translate") /\ JobOutcome(2, 2) = "success"

\* the two calls that read the source object
FetchOps == {"download", "open_remote"}

\* the reads of the source object made by job j of run r
Fetches(r, j) == {i \in JobEvents(r, j) : log[i].op \in FetchOps}

\* job j of run r got as far as the acquisition of its source
ReachedAcquisition(r, j) ==
    \/ r = run /\ j = idx /\ pc \in {"process", "upload"}
    \/ \E i \in JobEvents(r, j) :
           \/ log[i].op \in {"call", "upload"}
           \/ /\ log[i].op = "raise"
              /\ log[i].stage \in {"download", "open_remote", "process", "upload"}

\* C15 as stated: every job that was not skipped and has ended read its
\* source exactly once, by a download when preload is on and by a remote
\* open otherwise.
C15_ExactlyOneMode ==
    \A r \in 1..run : \A j \in DOMAIN tiff_keys :
        JobOutcome(r, j) \in {"failed", "success"} =>
            /\ Cardinality(Fetches(r, j)) = 1
            /\ \A i \in Fetches(r, j) :
                   log[i].op = (IF flags.preload THEN "download" ELSE "open_remote")

\* C15 amended: every job that reached the acquisition of its source read it
\* exactly once, by a download when preload is on and by a remote open
\* otherwise; the key read is the key of the job, and a read that succeeded
\* found the object in the working bucket.
C15_OneModeWhenReached ==
    \A r \in 1..run : \A j \in DOMAIN tiff_keys :
        ReachedAcquisition(r, j) =>
            /\ Cardinality(Fetches(r, j)) = 1
            /\ \A i \in Fetches(r, j) :
                   /\ log[i].op = (IF flags.preload THEN "download" ELSE "open_remote")
                   /\ log[i].key = tiff_keys[j]
                   /\ log[i].ok => tiff_keys[j] \in DOMAIN bucket

\* C15 witness: with preload on, a job that downloaded its source, and opened
\* nothing over HTTP, is about to upload.
C15_Witness ==
    /\ flags.preload /\ pc = "upload"
    /\ \E i \in Fetches(run, idx) : log[i].op = "download" /\ log[i].ok
    /\ ~Did(run, idx, "open_remote")

\* C16: a direct call with a path that names no file raises before anything
\* else is done: no temporary file is made, no name is generated, the file is
\* not opened, the option mapping is not written and nothing is transcoded.
C16_MissingPathFailsFirst ==
    [][(/\ calls' = calls + 1
        /\ log'[1].op = "call" /\ log'[1].kind = "path"
        /\ Resolve(log'[1].path) \notin DOMAIN disk)
       => /\ disk' = disk
          /\ uid' = uid
          /\ profile_options' = profile_options
          /\ [i \in DOMAIN log' |-> log'[i].op] = <<"call", "raise">>]_vars

\* C16 witness: after a call that changed the option mapping, a call with a
\* missing path raised at once; the file of the caller is still there.
C16_Witness ==
    /\ calls = 2
    /\ profile_options # BaselineOptions
    /\ [i \in DOMAIN log |-> log[i].op] = <<"call", "raise">>
    /\ log[1].kind = "path" /\ log[1].path = MissingFile
    /\ LocalFile \in DOMAIN disk /\ MissingFile \notin DOMAIN disk

\* C17: the temporary file made for in-memory bytes is gone when the call
\* has ended, however it ended.
C17_BytesTempReleased ==
    \A i \in DOMAIN log :
        (log[i].op = "mktemp" /\ CallOf(i).kind = "bytes") =>
            log[i].path \notin DOMAIN disk

\* the deletions of the local file path made by job j of run r
UnlinksOf(r, j, path) ==
    {k \in JobEvents(r, j) : log[k].op = "unlink" /\ log[k].path = path}

\* C18: in preload mode the downloaded temporary file is deleted exactly once
\* when the with block is left, whether by a return or by an exception: it
\* is there while the block runs, gone afterwards, deleted before the upload
\* is tried, and not read after its deletion. The output artifact is another
\* path, and it is on disk when the upload starts.
C18_InputTempReleased ==
    /\ \A i \in DOMAIN log :
           log[i].op = "mktemp" =>
               LET r == log[i].run
                   j == log[i].job
                   path == log[i].path
                   inside == r = run /\ j = idx /\ pc = "process" IN
               /\ inside => path \in DOMAIN disk /\ UnlinksOf(r, j, path) = {}
               /\ ~inside =>
                      /\ Cardinality(UnlinksOf(r, j, path)) = 1
                      /\ \A k \in UnlinksOf(r, j, path) : log[k].existed
                      /\ path \notin DOMAIN disk
               /\ \A k \in JobEvents(r, j) :
                      /\ log[k].op = "upload" =>
                             /\ log[k].path # path
                             /\ \E u \in UnlinksOf(r, j, path) : u < k
                      /\ (log[k].op \in {"download", "open"} /\ log[k].path = path) =>
                             \A u \in UnlinksOf(r, j, path) : k < u
                      /\ log[k].op = "translate" => log[k].dst # path
    /\ (pc = "upload" /\ flags.preload) => cog_path \in DOMAIN disk

\* C18 witness: a job downloaded its source, transcoded it, and left the with
\* block; the downloaded file is deleted and the artifact waits for upload.
C18_Witness ==
    /\ pc = "upload" /\ flags.preload
    /\ \E i \in JobEvents(run, idx) :
           /\ log[i].op = "mktemp"
           /\ log[i].path \notin DOMAIN disk
           /\ \E k \in UnlinksOf(run, idx, log[i].path) : log[k].existed
           /\ cog_path # log[i].path
    /\ cog_path \in DOMAIN disk

\* the uploads that returned
Stored == {i \in DOMAIN log : log[i].op = "upload" /\ log[i].ok}

\* the artifact that the job of log position i wrote and validated
ArtifactOf(i) ==
    LET ev == JobEvents(log[i].run, log[i].job)
        t == CHOOSE k \in ev : log[k].op = "translate"
        v == CHOOSE k \in ev : log[k].op = "validate"
    IN  CogObject(log[t].profile, log[v].result = "valid")

\* C19: with overwrite on, the existence of a destination is never asked and
\* no job is skipped; every job before the current one fetched its source,
\* transcoded it and uploaded the result, whether or not its destination was
\* there; the object under a destination key is the artifact of the latest
\* upload to it.
C19_OverwriteReplaces ==
    flags.overwrite =>
        /\ \A i \in DOMAIN log : log[i].op \notin {"exists", "skip"}
        /\ \A r \in 1..run : \A j \in DOMAIN tiff_keys :
               (r < run \/ j < idx) =>
                   /\ Fetches(r, j) # {}
                   /\ Did(r, j, "translate")
                   /\ JobOutcome(r, j) = "success"
        /\ \A i \in Stored :
               (\A k \in Stored : log[k].key = log[i].key => k <= i) =>
                   /\ log[i].key \in DOMAIN bucket
                   /\ bucket[log[i].key] = ArtifactOf(i)

\* C19 witness: a second run with overwrite on uploaded to a destination key
\* that held a valid artifact of the first run; the key now holds the
\* artifact of the second run, which is not valid.
C19_Witness ==
    /\ flags.overwrite /\ run = 2
    /\ \E i \in Stored :
           /\ log[i].run = 2
           /\ log[i].key \in DOMAIN snap[1]
           /\ snap[1][log[i].key].valid
           /\ ~bucket[log[i].key].valid

====
